---- MODULE Spec2Model ----
(***************************************************************************)
(* Model of the asynchronous delivery subsystem of email_service:         *)
(* EmailService (bounded emailQueue channel, worker pool, WaitGroup,      *)
(* cancellable context), its producers (QueueEmail) and its shutdown      *)
(* (Stop).                                                                 *)
(*                                                                         *)
(* Granularity.  Every Go `select` is one atomic step: the runtime locks  *)
(* all channels of the select, and picks uniformly at random among the    *)
(* cases that are ready.  A random pick is modelled as a nondeterministic *)
(* choice among the ready cases.  A worker whose pc is "select" is a      *)
(* goroutine that has not yet executed its select statement; a worker     *)
(* blocked in the select is the same state with no case ready.            *)
(***************************************************************************)
EXTENDS Integers, Sequences, FiniteSets, TLC

\* Capacity of emailQueue (make(chan EmailData, 100)), scaled down.
QueueCap == 2
\* workerCount (5 in NewEmailService), scaled down.
WorkerCount == 2
\* Number of QueueEmail calls explored.
MaxCalls == 3

Workers == 1..WorkerCount
CallIds == 1..MaxCalls

VARIABLES
  emailQueue,  \* buffer of the channel s.emailQueue: sequence of message ids
  closed,      \* close(s.emailQueue) has happened
  ctxDone,     \* s.cancel() has happened: s.ctx.Done() is closed
  wg,          \* counter of s.wg
  wpc,         \* per worker: "select" | "sending" | "stopped"
  cur,         \* per worker: the message it received (0 when none)
  stopPc,      \* position of the Stop() call
  nCalls,      \* number of QueueEmail calls made so far
  calls,       \* per QueueEmail call: its outcome and the state it saw
  attempts,    \* per message: number of sendEmail invocations that returned
  outcome,     \* per message: what the worker logged about it
  env,         \* the process environment NewEmailService reads
  svc,         \* the EmailService fields NewEmailService sets from env
  data,        \* the EmailData of the delivery attempt followed step by step
  att,         \* that delivery attempt: settings used, steps issued, error
  message,     \* the bytes.Buffer sendEmail fills with headers and body
  http,        \* the HTTP request handled last and its response
  tc,          \* a TestConnection call: steps issued, error
  mainPc       \* position of main: "listen" | "serving" | "returned" | "exited"

\* The queue, the pool and the lifecycle.
qvars == <<emailQueue, closed, ctxDone, wg, wpc, cur, stopPc, nCalls, calls,
           attempts, outcome>>
\* One delivery attempt.
tvars == <<env, svc, data, att, message, http, tc, mainPc>>

vars == <<qvars, tvars>>

----------------------------------------------------------------------------
(* Transport settings: NewEmailService and the getEffective* resolvers *)

\* strconv.ParseBool; NewEmailService drops its error, leaving false.
ParseBool(str) == str \in {"1", "t", "T", "TRUE", "true", "True"}

\* NewEmailService: the service defaults read from the environment, with the
\* SSL/TLS default auto-detected from SMTP_PORT when neither flag is set.
NewEmailService(e) ==
  LET useSSL == ParseBool(e.SMTP_USE_SSL)
      useTLS == ParseBool(e.SMTP_USE_TLS)
  IN [smtpHost    |-> e.SMTP_HOST,
      smtpPort    |-> e.SMTP_PORT,
      smtpUser    |-> e.SMTP_USER,
      smtpPass    |-> e.SMTP_PASS,
      senderEmail |-> e.SENDER_EMAIL,
      useSSL      |-> IF ~useSSL /\ ~useTLS /\ e.SMTP_PORT = "465"
                        THEN TRUE ELSE useSSL,
      useTLS      |-> IF ~useSSL /\ ~useTLS /\ e.SMTP_PORT = "465"
                        THEN useTLS
                        ELSE IF ~useSSL /\ ~useTLS /\ e.SMTP_PORT = "587"
                               THEN TRUE ELSE useTLS]

Digit(d) == SubSeq("0123456789", d + 1, d + 1)

\* fmt.Sprintf("%d", n) for n >= 0
RECURSIVE Itoa(_)
Itoa(n) == IF n < 10 THEN Digit(n) ELSE Itoa(n \div 10) \o Digit(n % 10)

getEffectiveSMTPHost(s, d) ==
  IF d.SMTPServer # "" THEN d.SMTPServer ELSE s.smtpHost

getEffectiveSMTPPort(s, d) ==
  IF d.SMTPPort # 0 THEN Itoa(d.SMTPPort) ELSE s.smtpPort

getEffectiveSMTPUser(s, d) ==
  IF d.SMTPUsername # "" THEN d.SMTPUsername ELSE s.smtpUser

getEffectiveSMTPPass(s, d) ==
  IF d.SMTPPassword # "" THEN d.SMTPPassword ELSE s.smtpPass

getEffectiveSSL(s, d) ==
  IF d.UseSSL THEN TRUE
  ELSE IF getEffectiveSMTPPort(s, d) = "465" THEN TRUE
  ELSE s.useSSL

getEffectiveTLS(s, d) ==
  IF d.UseTLS THEN TRUE
  ELSE IF getEffectiveSMTPPort(s, d) = "587" THEN TRUE
  ELSE s.useTLS

\* sendEmail: fmt.Sprintf("%s:%s", smtpHost, smtpPort)
Addr(host, port) == host \o ":" \o port

\* sendEmail: the sender of the From header and of the envelope.
SenderEmail(s, d) ==
  IF s.senderEmail = "" /\ getEffectiveSMTPUser(s, d) # ""
    THEN getEffectiveSMTPUser(s, d) ELSE s.senderEmail

\* sendEmail: `if useSSL {...} else if useTLS {...} else {...}`
ConnectionType(s, d) ==
  IF getEffectiveSSL(s, d) THEN "ImplicitTLS"
  ELSE IF getEffectiveTLS(s, d) THEN "STARTTLS"
  ELSE "Plain"

\* sendEmailSSL: addr[:len(addr)-4] panics on an addr shorter than 4 bytes.
ServerNamePanics(addr) == Len(addr) < 4

\* sendEmailSSL: ServerName: addr[:len(addr)-4], "Remove :port part"
ServerName(addr) == SubSeq(addr, 1, Len(addr) - 4)

(* The same resolution in internal/emailservice/service.go, the package the
   entry point imports: the message's credentials are used only when all
   four are given, and a non-empty user always becomes the sender. *)
InternalDynamic(d) ==
  d.SMTPServer # "" /\ d.SMTPPort # 0 /\ d.SMTPUsername # "" /\ d.SMTPPassword # ""

InternalSettings(s, d) ==
  IF InternalDynamic(d)
    THEN [host |-> d.SMTPServer, port |-> Itoa(d.SMTPPort),
          user |-> d.SMTPUsername, pass |-> d.SMTPPassword]
    ELSE [host |-> s.smtpHost, port |-> s.smtpPort,
          user |-> s.smtpUser, pass |-> s.smtpPass]

InternalSenderEmail(s, d) ==
  IF InternalSettings(s, d).user # "" THEN InternalSettings(s, d).user
                                      ELSE s.senderEmail

----------------------------------------------------------------------------
(* Inputs of a delivery attempt *)

\* The environment variables read by NewEmailService.
Envs ==
  [SMTP_HOST : {"", "mx"}, SMTP_PORT : {"25", "465", "587"},
   SMTP_USER : {"", "u"}, SMTP_PASS : {"", "p"},
   SENDER_EMAIL : {"", "s"},
   SMTP_USE_SSL : {"", "true"}, SMTP_USE_TLS : {"", "1"}]

\* EmailData values: every override absent or present.  To, Subject and
\* Body do not influence the connection.
EmailDatas ==
  [To : {"a"}, Subject : {"Hi"}, Body : {"ok"},
   SMTPServer : {"", "alt"}, SMTPPort : {0, 25, 465, 587},
   SMTPUsername : {"", "v"}, SMTPPassword : {"", "q"},
   UseSSL : BOOLEAN, UseTLS : BOOLEAN]

\* What the SMTP server answers to the greeting of net/smtp's SendMail:
\* HELO only, or EHLO with its extensions.
Servers ==
  {[ehlo |-> FALSE, starttls |-> FALSE, auth |-> FALSE]}
    \cup [ehlo : {TRUE}, starttls : BOOLEAN, auth : BOOLEAN]

\* TestConnection not called yet.
NoTest ==
  [pc |-> "idle", mode |-> "", serverName |-> "", script |-> <<>>,
   trace |-> <<>>, err |-> ""]

\* No HTTP request handled yet.
NoEmail == [To |-> "", Subject |-> "", Body |-> ""]

NoRequest ==
  [req |-> [method |-> "", decodes |-> FALSE, to |-> "", subject |-> "",
            template |-> "", slug |-> "", data |-> ""],
   status |-> 0, rendered |-> FALSE, renderErr |-> FALSE,
   emailData |-> NoEmail, callId |-> 0]

\* The message buffer before sendEmail writes to it.
NoMessage == [built |-> FALSE, bytes |-> ""]

\* No delivery attempt under way.
NoAttempt ==
  [pc |-> "idle", impl |-> "", mode |-> "", host |-> "", port |-> "",
   user |-> "", pass |-> "", sender |-> "", serverName |-> "",
   insecureSkipVerify |-> FALSE, script |-> <<>>, trace |-> <<>>, err |-> ""]

\* A QueueEmail call not made yet.
NoCall == [result |-> "none", fullAt |-> FALSE, doneAt |-> FALSE]

\* NewEmailService: open empty queue, live context, startWorkers done.
QueueInit ==
  /\ emailQueue = <<>>
  /\ closed = FALSE
  /\ ctxDone = FALSE
  /\ wg = WorkerCount
  /\ wpc = [w \in Workers |-> "select"]
  /\ cur = [w \in Workers |-> 0]
  /\ stopPc = "notCalled"
  /\ nCalls = 0
  /\ calls = [c \in CallIds |-> NoCall]
  /\ attempts = [c \in CallIds |-> 0]
  /\ outcome = [c \in CallIds |-> "none"]

\* The queue model takes sendEmail by its result only (SendErrors); the
\* attempt followed step by step stays idle in it.
TransportIdle ==
  /\ env = [SMTP_HOST |-> "mx", SMTP_PORT |-> "25", SMTP_USER |-> "u",
            SMTP_PASS |-> "p", SENDER_EMAIL |-> "s",
            SMTP_USE_SSL |-> "", SMTP_USE_TLS |-> ""]
  /\ svc = NewEmailService(env)
  /\ data = [To |-> "a", Subject |-> "Hi", Body |-> "ok", SMTPServer |-> "",
             SMTPPort |-> 0, SMTPUsername |-> "", SMTPPassword |-> "",
             UseSSL |-> FALSE, UseTLS |-> FALSE]
  /\ att = NoAttempt
  /\ message = NoMessage
  /\ http = NoRequest
  /\ tc = NoTest
  /\ mainPc = "listen"

Init == QueueInit /\ TransportIdle

----------------------------------------------------------------------------
(* QueueEmail *)

\* Variant: the capacity test is off by one.
SendReadyOffByOne(q, isClosed) == isClosed \/ Len(q) <= QueueCap

\* The send case `s.emailQueue <- data` can be chosen when the buffer has a
\* free slot; on a closed channel it is chosen too, and panics.
SendReady(q, isClosed) == isClosed \/ Len(q) < QueueCap

\* Outcomes of the select in QueueEmail: the ready cases, or default.
QueueEmailOutcomes(q, isClosed, done) ==
  LET sendCase == IF SendReady(q, isClosed)
                    THEN {IF isClosed THEN "panic" ELSE "ok"} ELSE {}
      doneCase == IF done THEN {"stopping"} ELSE {}
  IN IF sendCase \cup doneCase = {} THEN {"full"} ELSE sendCase \cup doneCase

\* The effect of one QueueEmail call that ends with outcome r.
QueueEmailReturns(r) ==
  /\ nCalls' = nCalls + 1
  /\ calls' = [calls EXCEPT ![nCalls + 1] =
                 [result |-> r, fullAt |-> (Len(emailQueue) = QueueCap),
                  doneAt |-> ctxDone]]
  /\ emailQueue' = IF r = "ok" THEN Append(emailQueue, nCalls + 1)
                               ELSE emailQueue

QueueEmail ==
  /\ nCalls < MaxCalls
  /\ \E r \in QueueEmailOutcomes(emailQueue, closed, ctxDone) :
       QueueEmailReturns(r)
  /\ UNCHANGED <<closed, ctxDone, wg, wpc, cur, stopPc, attempts, outcome,
                 tvars>>

----------------------------------------------------------------------------
(* worker *)

\* Variant: a receive that leaves the message in the buffer.
DequeuePeek(q) == q

\* What a receive leaves in the channel buffer.
Dequeue(q) == Tail(q)

\* Variant: a receive that takes the newest buffered message.
RecvNewest(q) == q[Len(q)]

\* The message a receive takes from the channel buffer: the oldest one.
Recv(q) == Head(q)

\* case email, ok := <-s.emailQueue with ok = true
WorkerReceive(w) ==
  /\ wpc[w] = "select"
  /\ Len(emailQueue) > 0
  /\ cur' = [cur EXCEPT ![w] = Recv(emailQueue)]
  /\ emailQueue' = Dequeue(emailQueue)
  /\ wpc' = [wpc EXCEPT ![w] = "sending"]
  /\ UNCHANGED <<closed, ctxDone, wg, stopPc, nCalls, calls, attempts,
                 outcome,
                 tvars>>

\* Variant: the worker returns without s.wg.Done().
WgDoneForgotten(n) == n

\* The deferred s.wg.Done()
WgDone(n) == n - 1

\* case email, ok := <-s.emailQueue with ok = false: return
WorkerQueueClosed(w) ==
  /\ wpc[w] = "select"
  /\ Len(emailQueue) = 0
  /\ closed
  /\ wpc' = [wpc EXCEPT ![w] = "stopped"]
  /\ wg' = WgDone(wg)
  /\ UNCHANGED <<emailQueue, closed, ctxDone, cur, stopPc, nCalls, calls,
                 attempts, outcome,
                 tvars>>

\* case <-s.ctx.Done(): return
WorkerCtxDone(w) ==
  /\ wpc[w] = "select"
  /\ ctxDone
  /\ wpc' = [wpc EXCEPT ![w] = "stopped"]
  /\ wg' = WgDone(wg)
  /\ UNCHANGED <<emailQueue, closed, ctxDone, cur, stopPc, nCalls, calls,
                 attempts, outcome,
                 tvars>>

WorkerSelect(w) ==
  WorkerReceive(w) \/ WorkerQueueClosed(w) \/ WorkerCtxDone(w)

\* err != nil of sendEmail: the SMTP peer decides, attempt by attempt.
SendErrors == BOOLEAN

\* Variant: the worker returns after its first message.
AfterSendReturn(err) == "stopped"

\* Variant: a delivery error ends the worker.
AfterSendFatal(err) == IF err THEN "stopped" ELSE "select"

\* Where the worker goes after sendEmail returned: both branches of the
\* `if err := s.sendEmail(email); err != nil` only log, the loop goes on.
AfterSend(err) == "select"

\* sendEmail(email) returns and the worker logs the result.
WorkerSend(w) ==
  /\ wpc[w] = "sending"
  /\ \E err \in SendErrors :
       /\ attempts' = [attempts EXCEPT ![cur[w]] = @ + 1]
       /\ outcome' = [outcome EXCEPT ![cur[w]] =
                        IF err THEN "failed" ELSE "sent"]
       /\ wpc' = [wpc EXCEPT ![w] = AfterSend(err)]
  /\ cur' = [cur EXCEPT ![w] = 0]
  /\ UNCHANGED <<emailQueue, closed, ctxDone, wg, stopPc, nCalls, calls,
                 tvars>>

----------------------------------------------------------------------------
(* Stop *)

\* s.cancel()
StopCancel ==
  /\ stopPc = "notCalled"
  /\ ctxDone' = TRUE
  /\ stopPc' = "cancelled"
  /\ UNCHANGED <<emailQueue, closed, wg, wpc, cur, nCalls, calls, attempts,
                 outcome,
                 tvars>>

\* close(s.emailQueue)
StopClose ==
  /\ stopPc = "cancelled"
  /\ closed' = TRUE
  /\ stopPc' = "closed"
  /\ UNCHANGED <<emailQueue, ctxDone, wg, wpc, cur, nCalls, calls, attempts,
                 outcome,
                 tvars>>

\* Variant: Stop does not wait for the workers.
WaitReturnsAlways(n) == TRUE

\* s.wg.Wait() unblocks when the counter is zero.
WaitReturns(n) == n = 0

\* s.wg.Wait() returns, and Stop with it.
StopWait ==
  /\ stopPc = "closed"
  /\ WaitReturns(wg)
  /\ stopPc' = "returned"
  /\ UNCHANGED <<emailQueue, closed, ctxDone, wg, wpc, cur, nCalls, calls,
                 attempts, outcome,
                 tvars>>

----------------------------------------------------------------------------

Next ==
  \/ QueueEmail
  \/ \E w \in Workers : WorkerReceive(w)
  \/ \E w \in Workers : WorkerQueueClosed(w)
  \/ \E w \in Workers : WorkerCtxDone(w)
  \/ \E w \in Workers : WorkerSend(w)
  \/ StopCancel
  \/ StopClose
  \/ StopWait

Spec == Init /\ [][Next]_vars

\* The Go scheduler runs every runnable goroutine; a delivery attempt in
\* progress returns; a Stop() that was called runs on.  Nothing forces a
\* caller to call Stop or QueueEmail.
Fairness ==
  /\ \A w \in Workers : WF_vars(WorkerSelect(w))
  /\ \A w \in Workers : WF_vars(WorkerSend(w))
  /\ WF_vars(StopClose)
  /\ WF_vars(StopWait)

FairSpec == Init /\ [][Next]_vars /\ Fairness

TypeOK ==
  /\ emailQueue \in Seq(CallIds)
  /\ Len(emailQueue) <= QueueCap
  /\ closed \in BOOLEAN
  /\ ctxDone \in BOOLEAN
  /\ wg \in 0..WorkerCount
  /\ wpc \in [Workers -> {"select", "sending", "stopped"}]
  /\ cur \in [Workers -> 0..MaxCalls]
  /\ stopPc \in {"notCalled", "cancelled", "closed", "returned"}
  /\ nCalls \in 0..MaxCalls
  /\ attempts \in [CallIds -> Nat]
  /\ outcome \in [CallIds -> {"none", "sent", "failed"}]

----------------------------------------------------------------------------
(* One delivery attempt, step by step: sendEmail and its three connection
   types.  A script is the sequence of calls the function makes when every
   one succeeds; the first call that fails ends the attempt with its error. *)

\* `if username != "" && password != ""` of sendEmailSSL and sendEmailTLS
AuthWanted(user, pass) == user # "" /\ pass # ""

AuthSteps(user, pass) == IF AuthWanted(user, pass) THEN <<"auth">> ELSE <<>>

\* client.Mail, client.Rcpt for the one recipient, client.Data,
\* writer.Write, writer.Close
EnvelopeAndData == <<"mail", "rcpt", "data", "write", "close">>

\* sendEmailSSL: tls.Dial (connection and handshake), smtp.NewClient, ...
SSLScript(user, pass) ==
  <<"tlsDial", "newClient">> \o AuthSteps(user, pass) \o EnvelopeAndData

\* Variant: authentication before the upgrade.
TLSScriptAuthFirst(user, pass) ==
  <<"dial">> \o AuthSteps(user, pass) \o <<"starttls">> \o EnvelopeAndData

\* sendEmailTLS: smtp.Dial, client.StartTLS, ...
TLSScript(user, pass) ==
  <<"dial", "starttls">> \o AuthSteps(user, pass) \o EnvelopeAndData

\* net/smtp's SendMail as sendEmail calls it, with the Auth that
\* smtp.PlainAuth returned (never nil): Dial, hello, StartTLS when the server
\* offers it, then, the extensions being known, the AUTH check and Auth.
SendMailScript(srv) ==
  <<"dial", "hello">>
    \o (IF srv.starttls THEN <<"starttls">> ELSE <<>>)
    \o (IF srv.ehlo
          THEN (IF srv.auth THEN <<"auth">> ELSE <<"authUnsupported">>)
          ELSE <<>>)
    \o EnvelopeAndData \o <<"quit">>

\* Whether a call can succeed: SendMail returns "server doesn't support
\* AUTH" by itself; every other call fails or not as the peer decides.
StepOutcomes(step) == IF step = "authUnsupported" THEN {FALSE} ELSE BOOLEAN

\* sendEmail of part_000 up to the choice of the connection type.
sendEmail ==
  /\ att.pc = "idle"
  /\ LET host == getEffectiveSMTPHost(svc, data)
         port == getEffectiveSMTPPort(svc, data)
         user == getEffectiveSMTPUser(svc, data)
         pass == getEffectiveSMTPPass(svc, data)
         mode == ConnectionType(svc, data)
         addr == Addr(host, port)
         base == [NoAttempt EXCEPT !.impl = "part_000", !.mode = mode,
                    !.host = host, !.port = port, !.user = user,
                    !.pass = pass, !.sender = SenderEmail(svc, data)]
     IN CASE mode = "ImplicitTLS" ->
               IF ServerNamePanics(addr)
                 THEN att' = [base EXCEPT !.pc = "done", !.err = "panic"]
                 ELSE att' = [base EXCEPT !.pc = "running",
                                !.serverName = ServerName(addr),
                                !.script = SSLScript(user, pass)]
          [] mode = "STARTTLS" ->
               att' = [base EXCEPT !.pc = "running", !.serverName = host,
                         !.script = TLSScript(user, pass)]
          [] mode = "Plain" ->
               \E srv \in Servers :
                 att' = [base EXCEPT !.pc = "running", !.serverName = host,
                           !.script = SendMailScript(srv)]
  /\ UNCHANGED <<qvars, env, svc, data, message, http, tc, mainPc>>

\* sendEmail of internal/emailservice/service.go: always smtp.SendMail.  Its
\* EmailData and EmailService have no SSL/TLS fields.
InternalSendEmail ==
  /\ att.pc = "idle"
  /\ ~data.UseSSL /\ ~data.UseTLS
  /\ env.SMTP_USE_SSL = "" /\ env.SMTP_USE_TLS = ""
  /\ \E srv \in Servers :
       att' = [NoAttempt EXCEPT !.pc = "running", !.impl = "internal",
                 !.mode = "Plain",
                 !.host = InternalSettings(svc, data).host,
                 !.port = InternalSettings(svc, data).port,
                 !.user = InternalSettings(svc, data).user,
                 !.pass = InternalSettings(svc, data).pass,
                 !.sender = InternalSenderEmail(svc, data),
                 !.serverName = InternalSettings(svc, data).host,
                 !.script = SendMailScript(srv)]
  /\ UNCHANGED <<qvars, env, svc, data, message, http, tc, mainPc>>

\* `defer client.Quit()` of sendEmailSSL and sendEmailTLS: registered once
\* the client exists, run when the function returns, its result dropped.
\* (`defer conn.Close()` and SendMail's `defer c.Close()` send nothing.)
DeferredQuit(mode, step, ok) ==
  CASE mode = "STARTTLS" -> ~(step = "dial" /\ ~ok)
    [] mode = "ImplicitTLS" -> ~(step \in {"tlsDial", "newClient"} /\ ~ok)
    [] OTHER -> FALSE

\* The next call of the running attempt is made and succeeds or fails; the
\* first failure, or the end of the script, returns from the function.
NextCall ==
  LET step == att.script[Len(att.trace) + 1]
  IN \E ok \in StepOutcomes(step) :
       LET returns == ~ok \/ Len(att.trace) + 1 = Len(att.script)
       IN att' = [att EXCEPT
                    !.trace = Append(@, step)
                                \o (IF returns /\ DeferredQuit(att.mode, step, ok)
                                      THEN <<"quit">> ELSE <<>>),
                    !.err = IF ok THEN "" ELSE step,
                    !.pc = IF returns THEN "done" ELSE "running"]

sendEmailSSL ==
  /\ att.pc = "running" /\ att.mode = "ImplicitTLS"
  /\ NextCall
  /\ UNCHANGED <<qvars, env, svc, data, message, http, tc, mainPc>>

sendEmailTLS ==
  /\ att.pc = "running" /\ att.mode = "STARTTLS"
  /\ NextCall
  /\ UNCHANGED <<qvars, env, svc, data, message, http, tc, mainPc>>

SendMail ==
  /\ att.pc = "running" /\ att.mode = "Plain"
  /\ NextCall
  /\ UNCHANGED <<qvars, env, svc, data, message, http, tc, mainPc>>

\* Every environment and every message, one attempt each.
SendInit ==
  /\ QueueInit
  /\ env \in Envs
  /\ svc = NewEmailService(env)
  /\ data \in EmailDatas
  /\ att = NoAttempt
  /\ message = NoMessage
  /\ http = NoRequest
  /\ tc = NoTest
  /\ mainPc = "listen"

SendNext ==
  \/ sendEmail
  \/ InternalSendEmail
  \/ sendEmailSSL
  \/ sendEmailTLS
  \/ SendMail

SendSpec == SendInit /\ [][SendNext]_vars

----------------------------------------------------------------------------
(* The message sendEmail prepares: headers, blank line, body *)

CRLF == "\r\n"

\* The keys of the `headers` map.
HeaderKeys == {"From", "To", "Subject", "MIME-version", "Content-Type"}

\* The `headers` map of sendEmail.
Headers(sender, d) ==
  [k \in HeaderKeys |->
     CASE k = "From" -> sender
       [] k = "To" -> d.To
       [] k = "Subject" -> d.Subject
       [] k = "MIME-version" -> "1.0"
       [] k = "Content-Type" -> "text/html; charset=\"UTF-8\""]

\* `for k, v := range headers` visits the keys in an order Go leaves
\* unspecified: any permutation.
HeaderOrders ==
  {o \in [1..Cardinality(HeaderKeys) -> HeaderKeys] :
     \A i, j \in DOMAIN o : i # j => o[i] # o[j]}

\* fmt.Sprintf("%s: %s\r\n", k, v)
HeaderLine(k, v) == k \o ": " \o v \o CRLF

RECURSIVE WriteHeaders(_, _, _)
WriteHeaders(h, order, i) ==
  IF i > Len(order) THEN ""
  ELSE HeaderLine(order[i], h[order[i]]) \o WriteHeaders(h, order, i + 1)

\* The three message.WriteString calls after the map is built.
MessageBytes(sender, d, order) ==
  WriteHeaders(Headers(sender, d), order, 1) \o CRLF \o d.Body

\* sendEmail, "Prepare message".
PrepareMessage ==
  /\ ~message.built
  /\ \E order \in HeaderOrders :
       message' = [built |-> TRUE,
                   bytes |-> MessageBytes(SenderEmail(svc, data), data, order)]
  /\ UNCHANGED <<qvars, env, svc, data, att, http, tc, mainPc>>

\* Recipients, subjects and bodies, with and without line breaks in them.
FrameEnvs ==
  [SMTP_HOST : {"mx"}, SMTP_PORT : {"25"}, SMTP_USER : {"", "u"},
   SMTP_PASS : {"p"}, SENDER_EMAIL : {"", "s"},
   SMTP_USE_SSL : {""}, SMTP_USE_TLS : {""}]

FrameDatas ==
  [To : {"a@x.com"}, Subject : {"Hi", "Hi" \o CRLF \o "Bcc: e@x.com"},
   Body : {"", "<p>ok</p>", "a" \o CRLF \o CRLF \o "b"},
   SMTPServer : {""}, SMTPPort : {0}, SMTPUsername : {""},
   SMTPPassword : {""}, UseSSL : {FALSE}, UseTLS : {FALSE}]

FrameInit ==
  /\ QueueInit
  /\ env \in FrameEnvs
  /\ svc = NewEmailService(env)
  /\ data \in FrameDatas
  /\ att = NoAttempt
  /\ message = NoMessage
  /\ http = NoRequest
  /\ tc = NoTest
  /\ mainPc = "listen"

FrameNext == PrepareMessage

FrameSpec == FrameInit /\ [][FrameNext]_vars

----------------------------------------------------------------------------
(* Vocabulary of the properties *)

Called(c) == calls[c].result # "none"
Accepted(m) == calls[m].result = "ok"
\* QueueEmail accepted m before Stop() raised the cancellation signal.
AcceptedBeforeStop(m) == Accepted(m) /\ ~calls[m].doneAt
InQueue(m) == \E i \in 1..Len(emailQueue) : emailQueue[i] = m
Copies(m) == Cardinality({i \in 1..Len(emailQueue) : emailQueue[i] = m})
Holders(m) == Cardinality({w \in Workers : cur[w] = m})
StopNotCalled == stopPc = "notCalled"
\* The transport has succeeded, or failed, on every attempt so far.
NoFailureYet == \A m \in CallIds : outcome[m] # "failed"
NoSuccessYet == \A m \in CallIds : outcome[m] # "sent"

----------------------------------------------------------------------------
\* C1: once Stop() has returned, every message that QueueEmail accepted
\* before Stop() was called has had sendEmail invoked on it; none is left in
\* the queue.
StopDeliversAllBuffered ==
  stopPc = "returned" =>
    \A m \in CallIds : AcceptedBeforeStop(m) => attempts[m] >= 1 /\ ~InQueue(m)

\* C2: every QueueEmail call returns one of success, queue-full or
\* service-stopping; it never panics.
QueueEmailThreeOutcomes ==
  \A c \in CallIds : calls[c].result \in {"none", "ok", "full", "stopping"}

\* C3: a QueueEmail call made once the cancellation signal is raised returns
\* the service-stopping error.
AfterCancelStopping ==
  \A c \in CallIds : (Called(c) /\ calls[c].doneAt) => calls[c].result = "stopping"

\* C4: QueueEmail returns success if and only if the queue had a free slot
\* and the cancellation signal was not raised at the instant of the call.
SuccessIffFreeAndRunning ==
  \A c \in CallIds :
    Called(c) =>
      (Accepted(c) <=> (~calls[c].fullAt /\ ~calls[c].doneAt))

\* C5 as stated: QueueEmail returns queue-full whenever the queue is at
\* capacity, whether or not the cancellation signal is raised.
FullAtCapacityAlways ==
  \A c \in CallIds :
    (Called(c) /\ calls[c].fullAt) => calls[c].result = "full"

\* C5 amended: QueueEmail returns queue-full whenever the queue is at
\* capacity and the cancellation signal has not been raised.
FullAtCapacityBeforeShutdown ==
  \A c \in CallIds :
    (Called(c) /\ calls[c].fullAt /\ ~calls[c].doneAt)
      => calls[c].result = "full"

FullAtCapacityWitness ==
  \E c \in CallIds :
    /\ calls[c].fullAt
    /\ ~calls[c].doneAt
    /\ calls[c].result = "full"

\* C6: when Stop() has returned every worker is Stopped, holds no message,
\* and from then on the queue is never received from.
StopReturnsWorkersStopped ==
  /\ [](stopPc = "returned" => \A w \in Workers : wpc[w] = "stopped" /\ cur[w] = 0)
  /\ [][stopPc = "returned" => (emailQueue' = emailQueue /\ wpc' = wpc)]_vars

StopReturnedWitness ==
  /\ stopPc = "returned"
  /\ \E m \in CallIds : attempts[m] >= 1

\* C7: a Stop() that was called eventually returns with every worker
\* Stopped, under fair scheduling and terminating delivery attempts.
StopEventuallyReturns ==
  (stopPc # "notCalled") ~>
     (stopPc = "returned" /\ \A w \in Workers : wpc[w] = "stopped")

\* Stop() was called on a non-empty queue with a delivery in progress.
StopCalledBusyWitness ==
  /\ stopPc = "cancelled"
  /\ Len(emailQueue) > 0
  /\ \E w \in Workers : wpc[w] = "sending"

\* C8: a message is received by at most one worker and attempted at most
\* once: it is in the queue, or held by one worker, or attempted once, and
\* never two of these.
AtMostOneAttempt ==
  \A m \in CallIds : Copies(m) + Holders(m) + attempts[m] <= 1

FailedOnceWitness ==
  \E m \in CallIds :
    /\ outcome[m] = "failed"
    /\ attempts[m] = 1
    /\ \E w \in Workers : wpc[w] = "select"

\* C9: when Stop() is never called and the transport always succeeds, every
\* accepted message is eventually delivered.
AcceptedEventuallyDelivered ==
  ([]StopNotCalled /\ []NoFailureYet) =>
     \A m \in CallIds : Accepted(m) ~> (outcome[m] = "sent")

\* As many messages as the queue holds were accepted and all were delivered.
AllDeliveredWitness ==
  /\ StopNotCalled
  /\ NoFailureYet
  /\ Cardinality({m \in CallIds : Accepted(m)}) >= QueueCap
  /\ \A m \in CallIds : Accepted(m) => outcome[m] = "sent"

\* C10: when Stop() is never called and the transport fails every attempt,
\* every accepted message is still attempted, exactly once, and no worker
\* ever stops.
FailingTransportDrains ==
  ([]StopNotCalled /\ []NoSuccessYet) =>
     /\ \A m \in CallIds : Accepted(m) ~> (outcome[m] = "failed" /\ attempts[m] = 1)
     /\ [](\A m \in CallIds : attempts[m] <= 1)
     /\ [](\A w \in Workers : wpc[w] # "stopped")

\* Every call was accepted and every message was attempted and failed, with
\* all workers back at the queue.
AllFailedWitness ==
  /\ StopNotCalled
  /\ NoSuccessYet
  /\ \A m \in CallIds : Accepted(m) /\ outcome[m] = "failed"
  /\ \A w \in Workers : wpc[w] = "select"

\* A worker has received m from the queue.
ReceivedByWorker(m) == Holders(m) > 0 \/ attempts[m] > 0

\* C11: messages leave the queue in the order QueueEmail accepted them: a
\* message is received by a worker only when every message accepted before
\* it has been received.
FifoDequeue ==
  \A a, b \in CallIds :
    (a < b /\ Accepted(a) /\ Accepted(b) /\ ReceivedByWorker(b))
      => ReceivedByWorker(a)

\* Two workers hold two messages at once, and a third message is still
\* buffered behind them.
FifoWitness ==
  \E a, b \in CallIds :
    /\ a < b
    /\ Holders(a) = 1
    /\ Holders(b) = 1
    /\ \E c \in CallIds : b < c /\ InQueue(c)

\* C18: a worker becomes Stopped only from its select and only when no
\* buffered message is available; never while it is delivering.
CancelOnlyWhenIdleEmpty ==
  [][\A w \in Workers :
       (wpc[w] # "stopped" /\ wpc'[w] = "stopped")
         => (wpc[w] = "select" /\ Len(emailQueue) = 0)]_vars

----------------------------------------------------------------------------
(* Vocabulary of the delivery-attempt properties *)

\* sendEmail has resolved its settings.
Attempted == att.pc # "idle"
\* The attempt is made by the sendEmail that knows the SSL/TLS flags.
ByPart000 == att.impl = "part_000"
Issued(step) == \E i \in 1..Len(att.trace) : att.trace[i] = step

\* Port-based inference as the specification states it.
PortMode(port) ==
  IF port = "465" THEN "ImplicitTLS"
  ELSE IF port = "587" THEN "STARTTLS"
  ELSE "Plain"

\* The precedence as the specification states it: message flags, then the
\* service defaults, then the effective port.
ClaimedMode(s, d, port) ==
  IF d.UseSSL THEN "ImplicitTLS"
  ELSE IF d.UseTLS THEN "STARTTLS"
  ELSE IF s.useSSL THEN "ImplicitTLS"
  ELSE IF s.useTLS THEN "STARTTLS"
  ELSE PortMode(port)

\* C12: the security mode sendEmail uses follows the precedence message
\* force-SSL, message force-STARTTLS, service default flag, effective port.
ModePrecedence ==
  (Attempted /\ ByPart000) => att.mode = ClaimedMode(svc, data, att.port)

\* C13: with no SSL/STARTTLS flag set in the message or in the service
\* configuration, the mode is the one inferred from the effective port.
ModeFromEffectivePort ==
  (/\ Attempted /\ ByPart000
   /\ ~data.UseSSL /\ ~data.UseTLS
   /\ ~ParseBool(env.SMTP_USE_SSL) /\ ~ParseBool(env.SMTP_USE_TLS))
    => att.mode = PortMode(att.port)

\* C14: each of host, port, username and password used by an attempt is the
\* message's override when that field is set and the service default
\* otherwise, field by field.
SettingsPerField ==
  Attempted =>
    /\ att.host = (IF data.SMTPServer # "" THEN data.SMTPServer
                                           ELSE svc.smtpHost)
    /\ att.port = (IF data.SMTPPort # 0 THEN Itoa(data.SMTPPort)
                                        ELSE svc.smtpPort)
    /\ att.user = (IF data.SMTPUsername # "" THEN data.SMTPUsername
                                             ELSE svc.smtpUser)
    /\ att.pass = (IF data.SMTPPassword # "" THEN data.SMTPPassword
                                             ELSE svc.smtpPass)

\* C15: the sender is the configured sender email when that is non-empty,
\* and the effective username only when it is empty.
SenderPrefersConfigured ==
  Attempted =>
    att.sender = (IF svc.senderEmail # "" THEN svc.senderEmail ELSE att.user)

\* C19: in every mode authentication is attempted if and only if username
\* and password are both non-empty; otherwise the attempt goes straight to
\* the envelope.
AuthIffCredentials ==
  (Attempted /\ ByPart000) =>
    /\ (Issued("auth") \/ Issued("authUnsupported"))
         => AuthWanted(att.user, att.pass)
    /\ (Issued("mail") /\ AuthWanted(att.user, att.pass)) => Issued("auth")

\* C20: in ImplicitTLS mode the TLS server name is the effective host,
\* verification is on, and the handshake is the first step.
ServerNameIsHost ==
  (Attempted /\ ByPart000 /\ att.mode = "ImplicitTLS") =>
    /\ att.err # "panic"
    /\ att.serverName = att.host
    /\ ~att.insecureSkipVerify
    /\ Len(att.trace) > 0 => att.trace[1] = "tlsDial"

----------------------------------------------------------------------------
(* Reading a raw message back: header lines up to the first blank line *)

\* Position of the first occurrence of pat in str at or after i, 0 if none.
RECURSIVE Find(_, _, _)
Find(str, pat, i) ==
  IF i + Len(pat) - 1 > Len(str) THEN 0
  ELSE IF SubSeq(str, i, i + Len(pat) - 1) = pat THEN i
  ELSE Find(str, pat, i + 1)

\* The CRLF-terminated lines before the first blank line.
RECURSIVE HeaderLinesOf(_)
HeaderLinesOf(str) ==
  LET k == Find(str, CRLF, 1)
  IN IF k <= 1 THEN <<>>
     ELSE <<SubSeq(str, 1, k - 1)>>
            \o HeaderLinesOf(SubSeq(str, k + Len(CRLF), Len(str)))

\* What follows the first blank line.
RECURSIVE BodyOf(_)
BodyOf(str) ==
  LET k == Find(str, CRLF, 1)
  IN IF k = 0 THEN ""
     ELSE IF k = 1 THEN SubSeq(str, 1 + Len(CRLF), Len(str))
     ELSE BodyOf(SubSeq(str, k + Len(CRLF), Len(str)))

KeyOf(line) ==
  LET k == Find(line, ": ", 1) IN IF k = 0 THEN "" ELSE SubSeq(line, 1, k - 1)

\* C17: the raw message is exactly five header lines, one per key, then one
\* blank line, then the body unchanged.
FramingExact ==
  message.built =>
    LET hl == HeaderLinesOf(message.bytes)
    IN /\ Len(hl) = Cardinality(HeaderKeys)
       /\ {KeyOf(hl[i]) : i \in 1..Len(hl)} = HeaderKeys
       /\ BodyOf(message.bytes) = data.Body

(***************************************************************************)
(* The HTTP handlers of GET /send and POST /send                           *)
(***************************************************************************)

\* template.Parse rejects an action that is opened and never closed; text
\* without actions is executed to itself.
ParseFails(tmplStr) ==
  LET i == Find(tmplStr, "{{", 1)
  IN i > 0 /\ Find(tmplStr, "}}", i + 2) = 0

ExecuteTemplate(tmplStr) ==
  IF ParseFails(tmplStr) THEN [body |-> "", err |-> TRUE]
                         ELSE [body |-> tmplStr, err |-> FALSE]

\* json.Unmarshal into a map: the input must be a JSON object.
UnmarshalFails(jsonData) ==
  \/ Len(jsonData) < 2
  \/ SubSeq(jsonData, 1, 1) # "{"
  \/ SubSeq(jsonData, Len(jsonData), Len(jsonData)) # "}"

\* The handlers' test of ExecuteTemplate's error.
RenderFailedIgnored(res) == FALSE

RenderFailed(res) == res.err

\* The requests: query parameters of GET /send, decoded body of POST /send.
GetRequests ==
  [method : {"GET"}, decodes : {TRUE}, to : {"", "a"}, subject : {"", "Hi"},
   template : {""}, slug : {"welcome", "{{"}, data : {"", "{}", "{"}]

PostRequests ==
  [method : {"POST"}, decodes : BOOLEAN, to : {"", "a"}, subject : {"", "Hi"},
   template : {"", "<p>ok</p>", "<p>{{</p>"}, slug : {""}, data : {""}]

\* The answer written before the handler renders anything.
Rejected(r, status) ==
  [req |-> r, status |-> status, rendered |-> FALSE, renderErr |-> FALSE,
   emailData |-> NoEmail, callId |-> 0]

\* From ExecuteTemplate to the response: an error answers 500 and returns,
\* otherwise the message goes to QueueEmail and its result is answered.
RenderAndQueue(r, templateContent, subject) ==
  LET res == ExecuteTemplate(templateContent)
  IN IF RenderFailed(res)
     THEN /\ http' = [req |-> r, status |-> 500, rendered |-> TRUE,
                      renderErr |-> res.err, emailData |-> NoEmail,
                      callId |-> 0]
          /\ UNCHANGED qvars
     ELSE /\ nCalls < MaxCalls
          /\ \E q \in QueueEmailOutcomes(emailQueue, closed, ctxDone) :
               /\ QueueEmailReturns(q)
               /\ http' = [req |-> r,
                           status |-> CASE q = "ok" -> 202
                                        [] q = "panic" -> 0
                                        [] OTHER -> 500,
                           rendered |-> TRUE, renderErr |-> res.err,
                           emailData |-> [To |-> r.to, Subject |-> subject,
                                          Body |-> res.body],
                           callId |-> nCalls + 1]
          /\ UNCHANGED <<closed, ctxDone, wg, wpc, cur, stopPc, attempts,
                         outcome>>

HandleGetSendEmail(r) ==
  /\ r \in GetRequests
  /\ IF r.to = ""
     THEN http' = Rejected(r, 400) /\ UNCHANGED qvars
     ELSE IF r.data # "" /\ UnmarshalFails(r.data)
     THEN http' = Rejected(r, 400) /\ UNCHANGED qvars
     ELSE RenderAndQueue(r,
            "<h1>Hello!</h1><p>This is a default email for " \o r.slug
              \o ".</p>",
            IF r.subject = "" THEN "Notification for " \o r.slug
                              ELSE r.subject)
  /\ UNCHANGED <<env, svc, data, att, message, tc, mainPc>>

HandlePostSendEmail(r) ==
  /\ r \in PostRequests
  /\ IF ~r.decodes
     THEN http' = Rejected(r, 400) /\ UNCHANGED qvars
     ELSE IF r.to = ""
     THEN http' = Rejected(r, 400) /\ UNCHANGED qvars
     ELSE IF r.template = ""
     THEN http' = Rejected(r, 400) /\ UNCHANGED qvars
     ELSE RenderAndQueue(r, r.template,
            IF r.subject = "" THEN "Email Notification" ELSE r.subject)
  /\ UNCHANGED <<env, svc, data, att, message, tc, mainPc>>

ApiNext ==
  \/ \E r \in GetRequests : HandleGetSendEmail(r)
  \/ \E r \in PostRequests : HandlePostSendEmail(r)

ApiSpec == Init /\ [][ApiNext]_vars

\* C16: in both handlers a request whose template fails to render is
\* answered with an error, and handling it calls QueueEmail not at all: the
\* queue and the count of QueueEmail calls are as they were.
TemplateFailureNotQueued ==
  [][http'.renderErr =>
       /\ http'.status = 500
       /\ http'.callId = 0
       /\ UNCHANGED <<emailQueue, nCalls, calls>>]_vars

\* A POST request failed to render after an earlier request was queued.
TemplateFailureWitness ==
  /\ http.req.method = "POST"
  /\ http.renderErr
  /\ http.status = 500
  /\ nCalls > 0

----------------------------------------------------------------------------
(* The order of the calls of a STARTTLS delivery *)

\* The place of a call in the claimed order; the deferred QUIT is last.
StepRank(step) ==
  CASE step = "dial" -> 1
    [] step = "starttls" -> 2
    [] step = "auth" -> 3
    [] step = "mail" -> 4
    [] step = "rcpt" -> 5
    [] step = "data" -> 6
    [] step = "write" -> 7
    [] step = "close" -> 8
    [] step = "quit" -> 9
    [] OTHER -> 0

\* The calls made so far without the deferred QUIT.
StepsMade ==
  IF Len(att.trace) > 0 /\ att.trace[Len(att.trace)] = "quit"
    THEN SubSeq(att.trace, 1, Len(att.trace) - 1)
    ELSE att.trace

\* C21: a STARTTLS delivery connects, upgrades, authenticates (when it has
\* credentials), then MAIL FROM, RCPT TO, DATA, in that order and each once;
\* nothing after the connect is issued unless the upgrade has succeeded; the
\* first failing call ends the attempt with the error of that call, and
\* only the deferred QUIT follows it.
StartTLSOrdered ==
  (Attempted /\ att.mode = "STARTTLS") =>
    LET t == StepsMade
        n == Len(StepsMade)
    IN /\ \A i \in 1..n : StepRank(t[i]) \in 1..8
       /\ n > 0 => t[1] = "dial"
       /\ \A i \in 2..n :
            /\ StepRank(t[i - 1]) < StepRank(t[i])
            /\ StepRank(t[i]) > 2 =>
                 /\ t[2] = "starttls"
                 /\ att.err # "starttls"
            /\ t[i] = "mail" =>
                 t[i - 1] = (IF AuthWanted(att.user, att.pass)
                               THEN "auth" ELSE "starttls")
            /\ StepRank(t[i]) \in {2, 5, 6, 7, 8} =>
                 StepRank(t[i - 1]) = StepRank(t[i]) - 1
            /\ t[i] = "auth" => t[i - 1] = "starttls"
       /\ att.err # "" =>
            /\ att.pc = "done"
            /\ n > 0 /\ t[n] = att.err
       /\ att.pc = "running" => att.trace = t

\* A STARTTLS delivery whose authentication failed after the upgrade.
StartTLSAuthFailedWitness ==
  /\ att.mode = "STARTTLS"
  /\ att.pc = "done"
  /\ att.err = "auth"
  /\ att.trace = <<"dial", "starttls", "auth", "quit">>

----------------------------------------------------------------------------
(* TestConnection, step by step *)

\* The calls of TestConnection's three branches when every one succeeds.
TestScript(mode, user, pass) ==
  CASE mode = "ImplicitTLS" ->
         <<"tlsDial", "newClient">> \o AuthSteps(user, pass)
    [] mode = "STARTTLS" -> <<"dial", "starttls">> \o AuthSteps(user, pass)
    [] mode = "Plain" -> <<"dial">> \o AuthSteps(user, pass)

\* `defer client.Quit()` of each branch, registered once the client exists.
TestDeferredQuit(mode, step, ok) ==
  IF mode = "ImplicitTLS" THEN ~(step \in {"tlsDial", "newClient"} /\ ~ok)
                          ELSE ~(step = "dial" /\ ~ok)

\* TestConnection up to the choice of the branch: the effective settings,
\* and smtpHost as the TLS server name and the PlainAuth host.
TestConnection ==
  /\ tc.pc = "idle"
  /\ LET mode == ConnectionType(svc, data)
     IN tc' = [NoTest EXCEPT
                 !.pc = "running", !.mode = mode,
                 !.serverName = getEffectiveSMTPHost(svc, data),
                 !.script = TestScript(mode, getEffectiveSMTPUser(svc, data),
                                       getEffectiveSMTPPass(svc, data))]
  /\ UNCHANGED <<qvars, env, svc, data, att, message, http, mainPc>>

\* The next call of the running test is made and succeeds or fails.
TestCall ==
  /\ tc.pc = "running"
  /\ LET step == tc.script[Len(tc.trace) + 1]
     IN \E ok \in StepOutcomes(step) :
          LET returns == ~ok \/ Len(tc.trace) + 1 = Len(tc.script)
          IN tc' = [tc EXCEPT
                      !.trace = Append(@, step)
                                  \o (IF returns /\ TestDeferredQuit(tc.mode, step, ok)
                                        THEN <<"quit">> ELSE <<>>),
                      !.err = IF ok THEN "" ELSE step,
                      !.pc = IF returns THEN "done" ELSE "running"]
  /\ UNCHANGED <<qvars, env, svc, data, att, message, http, mainPc>>

\* Every message and every configuration (the sender plays no part in a
\* connection test), a delivery started and a test run side by side.
TestInit ==
  /\ QueueInit
  /\ env \in {e \in Envs : e.SENDER_EMAIL = ""}
  /\ svc = NewEmailService(env)
  /\ data \in EmailDatas
  /\ att = NoAttempt
  /\ message = NoMessage
  /\ http = NoRequest
  /\ tc = NoTest
  /\ mainPc = "listen"

TestNext ==
  \/ sendEmail
  \/ TestConnection
  \/ TestCall

TestSpec == TestInit /\ [][TestNext]_vars

\* The connection, handshake and authentication calls of a delivery: its
\* script up to MAIL FROM.  The greeting is not counted, every path sends
\* it; SendMail's refusal to authenticate counts as its authentication step.
RECURSIVE HandshakeOf(_)
HandshakeOf(script) ==
  IF script = <<>> \/ Head(script) = "mail" THEN <<>>
  ELSE IF Head(script) = "hello" THEN HandshakeOf(Tail(script))
  ELSE <<IF Head(script) = "authUnsupported" THEN "auth" ELSE Head(script)>>
         \o HandshakeOf(Tail(script))

\* C22: for every message and configuration TestConnection takes the mode
\* sendEmail takes, gives the TLS layer the same server name, and makes the
\* connection, handshake and authentication calls the delivery makes.
TestSameAsDelivery ==
  (att.pc # "idle" /\ tc.pc # "idle") =>
    /\ tc.mode = att.mode
    /\ tc.serverName = att.serverName
    /\ tc.script = HandshakeOf(att.script)

----------------------------------------------------------------------------
(* main: the service is built, Stop is deferred, the HTTP server runs *)

\* http.ListenAndServe always returns a non-nil error: the listener could
\* not be opened, or accepting failed later.
ListenAndServeErrors == {"listen", "accept"}

\* Variant: log.Fatalf returns like log.Printf.
MainExitsNever(err) == FALSE

\* `if err != nil { log.Fatalf(...) }`: log.Fatalf ends in os.Exit(1), which
\* runs no deferred call.
MainExits(err) == err # "nil"

\* http.ListenAndServe has opened its listener and serves requests.
ListenAndServe ==
  /\ mainPc = "listen"
  /\ mainPc' = "serving"
  /\ UNCHANGED <<qvars, env, svc, data, att, message, http, tc>>

\* A handler of the running server calls QueueEmail.
ServeRequest ==
  /\ mainPc = "serving"
  /\ QueueEmail

\* The workers started by NewEmailService run as long as the process lives.
MainWorkerReceive(w) ==
  /\ mainPc \in {"listen", "serving"}
  /\ WorkerReceive(w)

MainWorkerSend(w) ==
  /\ mainPc \in {"listen", "serving"}
  /\ WorkerSend(w)

\* ListenAndServe returns err to main: log.Fatalf exits the process; were
\* err nil, main would return and the deferred service.Stop() would start
\* with s.cancel().
ListenAndServeReturns ==
  /\ mainPc \in {"listen", "serving"}
  /\ \E err \in ListenAndServeErrors :
       IF MainExits(err)
         THEN /\ mainPc' = "exited"
              /\ UNCHANGED qvars
         ELSE /\ mainPc' = "returned"
              /\ ctxDone' = TRUE
              /\ stopPc' = "cancelled"
              /\ UNCHANGED <<emailQueue, closed, wg, wpc, cur, nCalls, calls,
                             attempts, outcome>>
  /\ UNCHANGED <<env, svc, data, att, message, http, tc>>

\* main installs no signal handler: a termination signal ends the process
\* at once.
ProcessKilled ==
  /\ mainPc \in {"listen", "serving"}
  /\ mainPc' = "exited"
  /\ UNCHANGED <<qvars, env, svc, data, att, message, http, tc>>

MainNext ==
  \/ ListenAndServe
  \/ ServeRequest
  \/ \E w \in Workers : MainWorkerReceive(w)
  \/ \E w \in Workers : MainWorkerSend(w)
  \/ ListenAndServeReturns
  \/ ProcessKilled

MainSpec == Init /\ [][MainNext]_vars

\* C23: main never returns and the deferred Stop() never starts, whichever
\* way the process ends; once the process has ended, what the queue holds
\* stays there and no further delivery is attempted.
DeferredStopNeverRuns ==
  [][/\ mainPc' # "returned"
     /\ stopPc' = "notCalled"
     /\ ~ctxDone' /\ ~closed'
     /\ mainPc = "exited" => UNCHANGED <<emailQueue, attempts, outcome>>]_vars

\* The server ran, accepted messages, and the process ended with a message
\* still in the queue.
ExitedWithBufferedWitness ==
  /\ mainPc = "exited"
  /\ Len(emailQueue) > 0
  /\ stopPc = "notCalled"

====
